---------------------------- MODULE Spec2Model ----------------------------
(***************************************************************************)
(* Travel FX calculator: the rate-table extraction of                      *)
(* src/exchange_rate_calculator.py and src/scripts/update_rates.py and the *)
(* client-side cross-rate converter embedded in HTML_TEMPLATE.             *)
(*                                                                         *)
(* Numbers.  Python floats and JavaScript numbers are modelled as exact    *)
(* rationals [n, d] in lowest terms, extended with the IEEE special values *)
(* (d = 0): +Infinity = [1, 0], -Infinity = [-1, 0], NaN = [0, 0].  The     *)
(* rounding error of binary floating point and the sign of zero are not    *)
(* modelled.                                                               *)
(*                                                                         *)
(* Text.  A string is a sequence of tokens.  Inside amounts and table      *)
(* cells every token is one character.  Markup is tokenised so that each   *)
(* pattern the code searches for is a run of whole tokens: a substring or  *)
(* regular-expression search of the code is the same search over tokens.   *)
(*                                                                         *)
(* The script is modelled function by function as written.  Lines 489-494  *)
(* of the template, a function body that has lost its header, belong to no *)
(* function and are left out.                                              *)
(***************************************************************************)
EXTENDS Integers, Sequences, FiniteSets, TLC

(***************************************************************************)
(* Numbers                                                                 *)
(***************************************************************************)
Abs(i) == IF i < 0 THEN -i ELSE i

Sign(i) == IF i < 0 THEN -1 ELSE 1

RECURSIVE GCD(_, _)
GCD(a, b) == IF b = 0 THEN a ELSE GCD(b, a % b)

\* the number n/d, d >= 0, in lowest terms; d = 0 gives Infinity, -Infinity or NaN
Num(n, d) ==
    IF d = 0
    THEN [n |-> IF n > 0 THEN 1 ELSE IF n < 0 THEN -1 ELSE 0, d |-> 0]
    ELSE LET g == GCD(Abs(n), d) IN [n |-> n \div g, d |-> d \div g]

Int2Num(i) == Num(i, 1)

NaN == Num(0, 0)

Zero == Int2Num(0)

One == Int2Num(1)

\* Number.isFinite / math.isfinite
IsFinite(x) == x.d > 0

\* x > 0 (false for NaN, true for Infinity)
IsPositive(x) == x.n > 0

\* x < 0 (false for NaN)
IsNegative(x) == x.n < 0

\* x * y, cancelling common factors before multiplying
NumMul(x, y) ==
    LET g1 == GCD(Abs(x.n), y.d)
        g2 == GCD(Abs(y.n), x.d)
        a == IF g1 = 0 THEN x.n ELSE x.n \div g1
        b == IF g2 = 0 THEN y.n ELSE y.n \div g2
        c == IF g2 = 0 THEN x.d ELSE x.d \div g2
        e == IF g1 = 0 THEN y.d ELSE y.d \div g1
    IN Num(a * b, c * e)

\* 1 / y: 1 / 0 is Infinity
NumInv(y) == Num(y.d * Sign(y.n), Abs(y.n))

\* x / y: division by zero gives Infinity or NaN, as in JavaScript
NumDiv(x, y) == NumMul(x, NumInv(y))

(***************************************************************************)
(* Text                                                                    *)
(***************************************************************************)
DigitChars == <<"0", "1", "2", "3", "4", "5", "6", "7", "8", "9">>

IsDigit(c) == \E i \in 1..Len(DigitChars) : DigitChars[i] = c

DigitVal(c) == (CHOOSE i \in 1..Len(DigitChars) : DigitChars[i] = c) - 1

IsSpace(c) == c = " "

\* s.startswith(p) at position i (1-based)
MatchAt(s, p, i) ==
    /\ i + Len(p) - 1 <= Len(s)
    /\ \A k \in 1..Len(p) : s[i + k - 1] = p[k]

\* p in s (Python) / s.includes(p) (JavaScript)
Contains(s, p) == \E i \in 1..(Len(s) + 1) : MatchAt(s, p, i)

EndsWith(s, p) == Len(s) >= Len(p) /\ MatchAt(s, p, Len(s) - Len(p) + 1)

RECURSIVE LStrip(_)
LStrip(s) == IF s # <<>> /\ IsSpace(Head(s)) THEN LStrip(Tail(s)) ELSE s

RECURSIVE RStrip(_)
RStrip(s) ==
    IF s # <<>> /\ IsSpace(s[Len(s)]) THEN RStrip(SubSeq(s, 1, Len(s) - 1)) ELSE s

\* str.strip() / String.prototype.trim()
Strip(s) == RStrip(LStrip(s))

IsNotComma(c) == c # ","

\* s.replace(",", "") / s.replace(/,/g, "")
RemoveCommas(s) == SelectSeq(s, IsNotComma)

AllDigits(s) == \A i \in 1..Len(s) : IsDigit(s[i])

\* index of the first "." of s, 0 when there is none
DotIndex(s) ==
    IF \E i \in 1..Len(s) : s[i] = "."
    THEN CHOOSE i \in 1..Len(s) : s[i] = "." /\ \A k \in 1..(i - 1) : s[k] # "."
    ELSE 0

RECURSIVE Pow10(_)
Pow10(k) == IF k = 0 THEN 1 ELSE 10 * Pow10(k - 1)

\* value of a run of digits; the empty run is 0
RECURSIVE DigitsValue(_)
DigitsValue(s) ==
    IF s = <<>> THEN 0
    ELSE 10 * DigitsValue(SubSeq(s, 1, Len(s) - 1)) + DigitVal(s[Len(s)])

\* the decimal digits of a natural number
RECURSIVE NatDigits(_)
NatDigits(n) ==
    IF n < 10 THEN <<DigitChars[n + 1]>>
    ELSE Append(NatDigits(n \div 10), DigitChars[(n % 10) + 1])

\* value of digits [ "." digits ] where at least one of the two runs may be empty
DecimalValue(s) ==
    LET dot == DotIndex(s)
        ip == IF dot = 0 THEN s ELSE SubSeq(s, 1, dot - 1)
        fp == IF dot = 0 THEN <<>> ELSE SubSeq(s, dot + 1, Len(s))
    IN Num(DigitsValue(ip) * Pow10(Len(fp)) + DigitsValue(fp), Pow10(Len(fp)))

\* digits [ "." digits ] with at least one digit
IsDecimalLiteral(s) ==
    LET dot == DotIndex(s)
        ip == IF dot = 0 THEN s ELSE SubSeq(s, 1, dot - 1)
        fp == IF dot = 0 THEN <<>> ELSE SubSeq(s, dot + 1, Len(s))
    IN AllDigits(ip) /\ AllDigits(fp) /\ Len(ip) + Len(fp) > 0


(***************************************************************************)
(* Program constants                                                       *)
(***************************************************************************)
\* CURRENCY_META, in dictionary order, restricted to the five currencies the
\* page selects by default (default_codes): one pivot, three quoted per 1
\* unit and one quoted per 100 units
Codes == <<"KRW", "USD", "PHP", "JPY", "EUR">>

CodeSet == {Codes[i] : i \in 1..Len(Codes)}

NoMarket == "None"

market_code(code) ==
    CASE code = "KRW" -> NoMarket
      [] code = "USD" -> "FX_USDKRW"
      [] code = "PHP" -> "FX_PHPKRW"
      [] code = "JPY" -> "FX_JPYKRW"
      [] code = "EUR" -> "FX_EURKRW"

source_unit(code) == IF code = "JPY" THEN 100 ELSE 1

\* the option values of <select id="rate_type">, which are the keys of rates_by_type
RateTypes == <<"sale", "buy", "sell", "send", "receive">>

RateTypeSet == {RateTypes[i] : i \in 1..Len(RateTypes)}

default_codes == <<"USD", "KRW", "PHP", "EUR", "JPY">>

MIN_FIELDS == 1

MAX_FIELDS == 5

InitialActiveCount == 3

\* columns a row must yield: sale, buy, sell, send, receive
MinCols == 5

(***************************************************************************)
(* Markup tokens                                                           *)
(***************************************************************************)
TrOpen == "<tr>"

TrClose == "</tr>"

TdOpen == "<td"

TdClose == "</td>"

TagEnd == ">"

AOpen == "<a href=\"?"

AEnd == "\">"

AClose == "</a>"

CdParam == "marketindexCd="

ClassTit == "class=\"tit\""

ClassSale == "class=\"sale\""

ClassDate == "class=\"date\""

\* tokens that hold the character '<' (always as their first character)
HasLt == {TrOpen, TrClose, TdOpen, TdClose, AOpen, AClose}

\* tokens that hold the character '>' (always as their last character)
HasGt == {TrOpen, TrClose, TdClose, TagEnd, AEnd, AClose}

\* least k >= i with s[k] in toks, 0 when there is none
FirstFrom(s, toks, i) ==
    IF \E k \in i..Len(s) : s[k] \in toks
    THEN CHOOSE k \in i..Len(s) : s[k] \in toks /\ \A j \in i..(k - 1) : s[j] \notin toks
    ELSE 0

(***************************************************************************)
(* Row extraction and row location (Python)                                *)
(***************************************************************************)
\* RowMatchesFrom with a greedy pattern: one fragment, from the first row start
\* to the last row end
RowMatchesGreedy(html, i) ==
    LET a == FirstFrom(html, {TrOpen}, i)
        ends == {k \in 1..Len(html) : k > a /\ html[k] = TrClose}
    IN IF a = 0 \/ ends = {} THEN <<>>
       ELSE <<SubSeq(html, a, CHOOSE k \in ends : \A j \in ends : j <= k)>>

\* re.finditer(r"<tr>\s*.*?</tr>", html, flags=re.DOTALL) from position i
RECURSIVE RowMatchesFrom(_, _)
RowMatchesFrom(html, i) ==
    LET a == FirstFrom(html, {TrOpen}, i)
        b == IF a = 0 THEN 0 ELSE FirstFrom(html, {TrClose}, a + 1)
    IN IF a = 0 \/ b = 0 THEN <<>>
       ELSE <<SubSeq(html, a, b)>> \o RowMatchesFrom(html, b + 1)

iter_rows(html) == RowMatchesFrom(html, 1)

\* RowMatchesCode without the test for the title marker
RowMatchesCodeNoTitle(row, mc) == Contains(row, <<CdParam, mc>>)

\* the test of one row: both the identifier token and the title marker occur in it
RowMatchesCode(row, mc) ==
    Contains(row, <<CdParam, mc>>) /\ Contains(row, <<ClassTit>>)

\* _find_row of scripts/update_rates.py: the first matching row, or ValueError
find_row(rows, mc) ==
    IF \E k \in 1..Len(rows) : RowMatchesCode(rows[k], mc)
    THEN [found |-> TRUE,
          row |-> rows[CHOOSE k \in 1..Len(rows) :
                         /\ RowMatchesCode(rows[k], mc)
                         /\ \A j \in 1..(k - 1) : ~RowMatchesCode(rows[j], mc)]]
    ELSE [found |-> FALSE, row |-> <<>>]

\* _parse_market_row of exchange_rate_calculator.py: the same search over the
\* same regular expression
parse_market_row(html, mc) == find_row(RowMatchesFrom(html, 1), mc)

(***************************************************************************)
(* Column parsing (Python)                                                 *)
(***************************************************************************)
\* re.findall(r"<td[^>]*>\s*([^<]+?)\s*</td>", row_html, flags=re.DOTALL) from
\* position i: the captured texts, in document order
RECURSIVE TdTextsFrom(_, _)
TdTextsFrom(row, i) ==
    LET a == FirstFrom(row, {TdOpen}, i)
        g == IF a = 0 THEN 0 ELSE FirstFrom(row, HasGt, a + 1)
        e == IF g = 0 THEN 0 ELSE FirstFrom(row, HasLt, g + 1)
        content == SubSeq(row, g + 1, e - 1)
    IN IF a = 0 THEN <<>>
       ELSE IF g = 0 \/ e = 0 \/ row[e] # TdClose \/ content = <<>>
            THEN TdTextsFrom(row, a + 1)
            ELSE <<IF Strip(content) = <<>> THEN <<" ">> ELSE Strip(content)>>
                 \o TdTextsFrom(row, e + 1)

\* float(cleaned): [ok, v], ok = FALSE for ValueError.  Covers an optional sign
\* followed by a decimal literal, "inf" or "nan"
PyFloat(s) ==
    LET t == Strip(s)
        signed == t # <<>> /\ Head(t) \in {"-", "+"}
        sgn == IF signed /\ Head(t) = "-" THEN -1 ELSE 1
        body == IF signed THEN Tail(t) ELSE t
    IN IF body = <<"n", "a", "n">> THEN [ok |-> TRUE, v |-> NaN]
       ELSE IF body = <<"i", "n", "f">> THEN [ok |-> TRUE, v |-> Num(sgn, 0)]
       ELSE IF IsDecimalLiteral(body)
            THEN LET v == DecimalValue(body)
                 IN [ok |-> TRUE, v |-> Num(sgn * v.n, v.d)]
            ELSE [ok |-> FALSE, v |-> NaN]

\* the loop of _parse_row_numbers over the captured cell texts
RECURSIVE NumbersOf(_)
NumbersOf(tds) ==
    IF tds = <<>> THEN <<>>
    ELSE LET cleaned == RemoveCommas(Strip(Head(tds)))
             rest == NumbersOf(Tail(tds))
         IN IF cleaned = <<>> \/ cleaned = <<"-">> THEN rest
            ELSE IF PyFloat(cleaned).ok THEN <<PyFloat(cleaned).v>> \o rest
            ELSE rest

parse_row_numbers(row_html) == NumbersOf(TdTextsFrom(row_html, 1))

NoText == <<"None">>

\* _parse_rate_time: re.search(r"<td class=\"date\">([^<]+)</td>", row_html)
parse_rate_time(row_html) ==
    LET open == <<TdOpen, " ", ClassDate, TagEnd>>
        Hit(i) == /\ MatchAt(row_html, open, i)
                  /\ FirstFrom(row_html, HasLt, i + Len(open)) > i + Len(open)
                  /\ row_html[FirstFrom(row_html, HasLt, i + Len(open))] = TdClose
    IN IF \E i \in 1..Len(row_html) : Hit(i)
       THEN LET i == CHOOSE k \in 1..Len(row_html) :
                        Hit(k) /\ \A j \in 1..(k - 1) : ~Hit(j)
            IN Strip(SubSeq(row_html, i + Len(open),
                            FirstFrom(row_html, HasLt, i + Len(open)) - 1))
       ELSE NoText

(***************************************************************************)
(* Numeric text (JavaScript)                                               *)
(***************************************************************************)
\* s.replace(/\B(?=(\d{3})+(?!\d))/g, ",") on a run of digits
RECURSIVE GroupThousands(_)
GroupThousands(s) ==
    IF Len(s) <= 3 THEN s
    ELSE GroupThousands(SubSeq(s, 1, Len(s) - 3)) \o <<",">>
         \o SubSeq(s, Len(s) - 2, Len(s))

\* s.replace(/^0+(?=\d)/, "")
RECURSIVE StripLeadingZeros(_)
StripLeadingZeros(s) ==
    IF Len(s) >= 2 /\ s[1] = "0" /\ IsDigit(s[2]) THEN StripLeadingZeros(Tail(s))
    ELSE s

\* /^\d*\.?\d*$/.test(s)
IsEditablePattern(s) ==
    LET dot == DotIndex(s)
        ip == IF dot = 0 THEN s ELSE SubSeq(s, 1, dot - 1)
        fp == IF dot = 0 THEN <<>> ELSE SubSeq(s, dot + 1, Len(s))
    IN AllDigits(ip) /\ AllDigits(fp)

\* cleanEditableNumberText that leaves the grouping separators in place
cleanEditableNumberTextKeepCommas(value) ==
    LET cleaned == Strip(value)
    IN IF cleaned = <<>> THEN <<>>
       ELSE IF Contains(cleaned, <<"-">>) THEN <<>>
       ELSE IF ~IsEditablePattern(cleaned) THEN <<>>
       ELSE cleaned

cleanEditableNumberText(value) ==
    LET cleaned == Strip(RemoveCommas(value))
    IN IF cleaned = <<>> THEN <<>>
       ELSE IF Contains(cleaned, <<"-">>) THEN <<>>
       ELSE IF ~IsEditablePattern(cleaned) THEN <<>>
       ELSE cleaned

\* Number.parseFloat on a text that passed cleanEditableNumberText, "." excluded
parseFloat(s) == IF IsDecimalLiteral(s) THEN DecimalValue(s) ELSE NaN

\* parseEditableNumber that coerces an empty text to zero
parseEditableNumberCoercing(value) ==
    LET cleaned == cleanEditableNumberText(value)
        normalized == IF cleaned \in {<<>>, <<".">>} THEN <<"0", ".">> ELSE cleaned
        n == parseFloat(normalized)
    IN [empty |-> FALSE, cleaned |-> normalized,
        number |-> IF IsFinite(n) /\ ~IsNegative(n) THEN n ELSE Zero]

parseEditableNumber(value) ==
    LET cleaned == cleanEditableNumberText(value)
        normalized == IF cleaned = <<".">> THEN <<"0", ".">> ELSE cleaned
        n == parseFloat(normalized)
    IN IF cleaned = <<>> THEN [empty |-> TRUE, cleaned |-> <<>>, number |-> Zero]
       ELSE [empty |-> FALSE, cleaned |-> normalized,
             number |-> IF IsFinite(n) /\ ~IsNegative(n) THEN n ELSE Zero]

formatEditableNumberText(cleaned) ==
    LET dot == DotIndex(cleaned)
        hasDot == dot # 0
        intRaw == IF hasDot THEN SubSeq(cleaned, 1, dot - 1) ELSE cleaned
        fracPart == IF hasDot THEN SubSeq(cleaned, dot + 1, Len(cleaned)) ELSE <<>>
        intPart == GroupThousands(StripLeadingZeros(
                       IF intRaw = <<>> THEN <<"0">> ELSE intRaw))
    IN IF cleaned = <<>> THEN <<>>
       ELSE IF ~hasDot THEN intPart
       ELSE intPart \o <<".">> \o fracPart

\* x.toFixed(2) for finite x >= 0, as [ip, fp]: the integer part and the two
\* fractional digits; a tie rounds up
toFixed2(x) ==
    LET q == x.n \div x.d
        r == x.n % x.d
        t1 == (r * 10) \div x.d
        r1 == (r * 10) % x.d
        t2 == (r1 * 10) \div x.d
        r2 == (r1 * 10) % x.d
        hundredths == q * 100 + t1 * 10 + t2 + (IF r2 >= x.d - r2 THEN 1 ELSE 0)
    IN [ip |-> NatDigits(hundredths \div 100),
        fp |-> <<DigitChars[((hundredths % 100) \div 10) + 1],
                 DigitChars[(hundredths % 10) + 1]>>]

toInputValue(value) ==
    IF ~IsFinite(value) \/ IsNegative(value) THEN <<"0", ".", "0", "0">>
    ELSE LET parts == toFixed2(value)
         IN GroupThousands(parts.ip) \o <<".">> \o parts.fp

(***************************************************************************)
(* Upstream documents: the inputs of the fetch                             *)
(***************************************************************************)
\* the printed form of h hundredths, with grouping separators: "1,350.00"
Quote(h) ==
    GroupThousands(NatDigits(h \div 100))
    \o <<".", DigitChars[((h % 100) \div 10) + 1], DigitChars[(h % 10) + 1]>>

\* the five rate columns of each currency's row, in hundredths, then the sixth
\* column of the source table (the USD conversion ratio)
Quotes(code) ==
    CASE code = "USD" -> <<135000, 136000, 134000, 134500, 135500, 100>>
      [] code = "PHP" -> <<2400, 2500, 2300, 2450, 2350, 2>>
      [] code = "JPY" -> <<90000, 90500, 89500, 89700, 90300, 67>>
      [] code = "EUR" -> <<150000, 153000, 147000, 151500, 148500, 111>>

\* the columns of a row whose identifier merely starts with a requested one
ShadowQuotes == <<700, 800, 600, 750, 650, 1>>

TitCell(id) ==
    <<TdOpen, " ", ClassTit, TagEnd, AOpen, CdParam>> \o id
    \o <<AEnd, "n", "a", "m", "e", AClose, TdClose>>

\* a first cell that links to the identifier without the title marker
LinkCell(id) ==
    <<TdOpen, TagEnd, AOpen, CdParam>> \o id
    \o <<AEnd, "n", "a", "m", "e", AClose, TdClose>>

SaleCell(txt) == <<TdOpen, " ", ClassSale, TagEnd>> \o txt \o <<TdClose>>

Cell(txt) == <<TdOpen, TagEnd, " ">> \o txt \o <<" ", TdClose>>

DateCell == <<TdOpen, " ", ClassDate, TagEnd, "2", "6", ".", "0", "2", ".", "0", "8", TdClose>>

RowOf(first, q, withDate) ==
    <<TrOpen, " ">> \o first \o SaleCell(Quote(q[1])) \o Cell(Quote(q[2]))
    \o Cell(Quote(q[3])) \o Cell(Quote(q[4])) \o Cell(Quote(q[5]))
    \o Cell(Quote(q[6])) \o (IF withDate THEN DateCell ELSE <<>>) \o <<" ", TrClose>>

GoodRow(code) == RowOf(TitCell(<<market_code(code)>>), Quotes(code), code = "USD")

\* a row that prints "-" for the two remittance columns: four numbers are left
ShortRow(code) ==
    LET q == Quotes(code)
    IN <<TrOpen>> \o TitCell(<<market_code(code)>>) \o SaleCell(Quote(q[1]))
       \o Cell(Quote(q[2])) \o Cell(Quote(q[3])) \o Cell(<<"-">>) \o Cell(<<"-">>)
       \o Cell(Quote(q[6])) \o <<TrClose>>

\* a title row of another market whose identifier extends the requested one
ShadowRow(code) == RowOf(TitCell(<<market_code(code), "_", "X">>), ShadowQuotes, FALSE)

UntitledRow(code) == RowOf(LinkCell(<<market_code(code)>>), Quotes(code), FALSE)

\* a title row that prints "-" for the cash-sell column only: five numbers are
\* left
GapRow(code) ==
    LET q == Quotes(code)
    IN <<TrOpen>> \o TitCell(<<market_code(code)>>) \o SaleCell(Quote(q[1]))
       \o Cell(Quote(q[2])) \o Cell(<<"-">>) \o Cell(Quote(q[4]))
       \o Cell(Quote(q[5])) \o Cell(Quote(q[6])) \o <<TrClose>>

\* a title row with six numeric cells of which four are no rate: a negative
\* number, zero, "nan" and "inf"
OddRow(code) ==
    LET q == Quotes(code)
    IN <<TrOpen>> \o TitCell(<<market_code(code)>>) \o SaleCell(Quote(q[1]))
       \o Cell(<<"-", "5", ".", "0", "0">>) \o Cell(<<"0", ".", "0", "0">>)
       \o Cell(<<"n", "a", "n">>) \o Cell(<<"i", "n", "f">>)
       \o Cell(Quote(q[6])) \o <<TrClose>>

RowsFor(code, variant) ==
    CASE variant = "good" -> GoodRow(code)
      [] variant = "short" -> ShortRow(code)
      [] variant = "absent" -> <<>>
      [] variant = "shadow" -> ShadowRow(code) \o GoodRow(code)
      [] variant = "untitled" -> UntitledRow(code)
      [] variant = "odd" -> OddRow(code)
      [] variant = "gap" -> GapRow(code)

\* the document in which currency c has the given variant and every other
\* currency a good row
RECURSIVE DocFrom(_, _, _)
DocFrom(i, c, variant) ==
    IF i > Len(Codes) THEN <<"<", "/", "t", "a", "b", "l", "e", ">">>
    ELSE (IF market_code(Codes[i]) = NoMarket THEN <<>>
          ELSE RowsFor(Codes[i], IF Codes[i] = c THEN variant ELSE "good"))
         \o DocFrom(i + 1, c, variant)

\* the deviations from the all-good document that are explored
Deviations ==
    {<<"USD", "good">>, <<"USD", "short">>, <<"USD", "absent">>, <<"USD", "shadow">>,
     <<"USD", "untitled">>, <<"JPY", "short">>, <<"EUR", "absent">>,
     <<"EUR", "odd">>, <<"PHP", "gap">>}

\* a document without any row
NoRowsDoc == DocFrom(Len(Codes) + 1, "KRW", "good")

Docs == {DocFrom(1, dv[1], dv[2]) : dv \in Deviations} \cup {NoRowsDoc}

\* what urlopen(...).read().decode(...) can give: a document, or URLError
Responses == [ok : {TRUE}, html : Docs] \cup [ok : {FALSE}, html : {<<>>}]

(***************************************************************************)
(* Fetch (Python)                                                          *)
(***************************************************************************)
TypeIndex(t) == CHOOSE k \in 1..Len(RateTypes) : RateTypes[k] = t

\* {"sale": {"KRW": 1.0}, "buy": {"KRW": 1.0}, ...}
PivotOnly == [t \in RateTypeSet |-> [c \in {"KRW"} |-> One]]

\* StoreRates with the source unit applied the wrong way round
StoreRatesTimesUnit(rates, code, cols) ==
    [t \in RateTypeSet |->
        (code :> NumMul(cols[TypeIndex(t)], Int2Num(source_unit(code)))) @@ rates[t]]

\* StoreRates that also writes the row's value under the pivot's key
StoreRatesOverPivot(rates, code, cols) ==
    [t \in RateTypeSet |->
        ("KRW" :> NumDiv(cols[TypeIndex(t)], Int2Num(source_unit(code))))
        @@ (code :> NumDiv(cols[TypeIndex(t)], Int2Num(source_unit(code)))) @@ rates[t]]

\* rates_by_type[t][code] = cols[...] / source_unit, for the five rate types
StoreRates(rates, code, cols) ==
    [t \in RateTypeSet |->
        (code :> NumDiv(cols[TypeIndex(t)], Int2Num(source_unit(code)))) @@ rates[t]]

\* no table: the value of a fetch that raised
NoRates == <<>>

\* a fetch that raised: no snapshot object exists
Failure(kind, code) ==
    [ok |-> FALSE, rates_by_type |-> NoRates, source_time_text |-> NoText,
     error |-> kind, code |-> code]

\* NaverLoop that fills the missing columns of a short row with zero
RECURSIVE NaverLoopPadded(_, _, _, _)
NaverLoopPadded(html, i, rates, time) ==
    IF i > Len(Codes)
    THEN [ok |-> TRUE, rates_by_type |-> rates, source_time_text |-> time,
          error |-> "None", code |-> "None"]
    ELSE IF market_code(Codes[i]) = NoMarket THEN NaverLoopPadded(html, i + 1, rates, time)
    ELSE LET code == Codes[i]
             located == parse_market_row(html, market_code(code))
             cols == parse_row_numbers(located.row)
             padded == [k \in 1..MinCols |-> IF k <= Len(cols) THEN cols[k] ELSE Zero]
         IN IF ~located.found THEN Failure("ValueError", code)
            ELSE NaverLoopPadded(html, i + 1, StoreRates(rates, code, padded),
                                 IF time = NoText THEN parse_rate_time(located.row) ELSE time)

\* NaverLoop that skips a currency whose row is missing or short
RECURSIVE NaverLoopSkipping(_, _, _, _)
NaverLoopSkipping(html, i, rates, time) ==
    IF i > Len(Codes)
    THEN [ok |-> TRUE, rates_by_type |-> rates, source_time_text |-> time,
          error |-> "None", code |-> "None"]
    ELSE IF market_code(Codes[i]) = NoMarket THEN NaverLoopSkipping(html, i + 1, rates, time)
    ELSE LET code == Codes[i]
             located == parse_market_row(html, market_code(code))
             cols == parse_row_numbers(located.row)
         IN IF ~located.found \/ Len(cols) < MinCols
            THEN NaverLoopSkipping(html, i + 1, rates, time)
            ELSE NaverLoopSkipping(html, i + 1, StoreRates(rates, code, cols),
                                   IF time = NoText THEN parse_rate_time(located.row) ELSE time)

\* the loop of fetch_naver_rates from the i-th entry of CURRENCY_META on
RECURSIVE NaverLoop(_, _, _, _)
NaverLoop(html, i, rates, time) ==
    IF i > Len(Codes)
    THEN [ok |-> TRUE, rates_by_type |-> rates, source_time_text |-> time,
          error |-> "None", code |-> "None"]
    ELSE IF market_code(Codes[i]) = NoMarket THEN NaverLoop(html, i + 1, rates, time)
    ELSE LET code == Codes[i]
             located == parse_market_row(html, market_code(code))
             cols == parse_row_numbers(located.row)
         IN IF ~located.found THEN Failure("ValueError", code)
            ELSE IF Len(cols) < MinCols THEN Failure("RuntimeError", code)
            ELSE NaverLoop(html, i + 1, StoreRates(rates, code, cols),
                           IF time = NoText THEN parse_rate_time(located.row) ELSE time)

fetch_naver_rates(response) ==
    IF ~response.ok THEN Failure("RuntimeError", "connect")
    ELSE NaverLoop(response.html, 1, PivotOnly, NoText)

\* the loop of fetch_snapshot (scripts/update_rates.py)
RECURSIVE SnapshotLoop(_, _, _)
SnapshotLoop(rows, i, rates) ==
    IF i > Len(Codes)
    THEN [ok |-> TRUE, rates_by_type |-> rates, source_time_text |-> NoText,
          error |-> "None", code |-> "None"]
    ELSE IF market_code(Codes[i]) = NoMarket THEN SnapshotLoop(rows, i + 1, rates)
    ELSE LET code == Codes[i]
             located == find_row(rows, market_code(code))
             cols == parse_row_numbers(located.row)
         IN IF ~located.found THEN Failure("ValueError", code)
            ELSE IF Len(cols) < MinCols THEN Failure("RuntimeError", code)
            ELSE SnapshotLoop(rows, i + 1, StoreRates(rates, code, cols))

fetch_snapshot(response) ==
    IF ~response.ok THEN Failure("URLError", "connect")
    ELSE SnapshotLoop(iter_rows(response.html), 1, PivotOnly)

\* a fallback table that gives every currency the rate 1.0
FallbackRatesAllOne == [t \in RateTypeSet |-> [c \in CodeSet |-> One]]

\* the table index() starts from: KRW 1.0, every other currency 0.0
FallbackRates == [t \in RateTypeSet |-> [c \in CodeSet |-> IF c = "KRW" THEN One ELSE Zero]]

\* index(): what the page is rendered from
RenderIndex(response) ==
    LET snapshot == fetch_naver_rates(response)
    IN IF snapshot.ok
       THEN [rates_by_type |-> snapshot.rates_by_type, error |-> "None",
             rate_time_text |-> IF snapshot.source_time_text \notin {NoText, <<>>}
                                THEN "source" ELSE "fetched_at"]
       ELSE [rates_by_type |-> FallbackRates, error |-> snapshot.error,
             rate_time_text |-> "failed"]

(***************************************************************************)
(* The calculator page (JavaScript).  Its state is handled as a record s   *)
(* so that the calls a handler makes compose in the order of the code.     *)
(* Fields are numbered from 1: field i is fields[i - 1] of the script, and *)
(* lastEditedIndex holds the script's value plus one.                      *)
(***************************************************************************)
Fields == 1..MAX_FIELDS

Min(a, b) == IF a <= b THEN a ELSE b

\* r[code]: undefined, which behaves as NaN in arithmetic, for a missing key
RateOf(r, c) == IF c \in DOMAIN r THEN r[c] ELSE NaN

\* currentRates that ignores the selected rate type
currentRatesSaleOnly(s) == s.ratesByType["sale"]

currentRates(s) ==
    IF s.rateType \in DOMAIN s.ratesByType THEN s.ratesByType[s.rateType]
    ELSE s.ratesByType["sale"]

canConvertSelected(s) ==
    LET r == currentRates(s)
    IN \A i \in 1..s.activeCount :
          IsFinite(RateOf(r, s.code[i])) /\ IsPositive(RateOf(r, s.code[i]))

\* convertAmount that leaves out the division by the target rate
convertAmountNoDivision(s, amount, fromCode, toCode) ==
    IF fromCode = toCode THEN amount
    ELSE NumMul(amount, RateOf(s.ratesByType[s.rateType], fromCode))

\* convertAmount without the shortcut for equal codes
convertAmountNoShortcut(s, amount, fromCode, toCode) ==
    NumDiv(NumMul(amount, RateOf(s.ratesByType[s.rateType], fromCode)),
           RateOf(s.ratesByType[s.rateType], toCode))

convertAmount(s, amount, fromCode, toCode) ==
    IF fromCode = toCode THEN amount
    ELSE LET r == currentRates(s)
             inKrw == NumMul(amount, RateOf(r, fromCode))
         IN NumDiv(inKrw, RateOf(r, toCode))

\* the record of one call of convertAmount, kept for the properties
CallOf(s, amount, fromCode, toCode) ==
    [amount |-> amount, from |-> fromCode, to |-> toCode,
     result |-> convertAmount(s, amount, fromCode, toCode)]

\* updateFrom that converts in the wrong direction
updateFromReversed(s, index) ==
    LET parsed == parseEditableNumber(s.text[index])
        others == {i \in 1..s.activeCount : i # index}
    IN IF s.isSyncing \/ index \notin 1..s.activeCount THEN s
       ELSE IF parsed.empty
            THEN [s EXCEPT !.text = [i \in Fields |->
                                        IF i \in others THEN <<>> ELSE s.text[i]]]
       ELSE [s EXCEPT
               !.text = [i \in Fields |->
                   IF i = index THEN toInputValue(parsed.number)
                   ELSE IF i \in others
                        THEN toInputValue(convertAmount(s, parsed.number, s.code[i],
                                                        s.code[index]))
                        ELSE s.text[i]]]

\* updateFrom that returns on an empty source without clearing isSyncing
updateFromStaleFlag(s, index) ==
    LET parsed == parseEditableNumber(s.text[index])
        others == {i \in 1..s.activeCount : i # index}
    IN IF s.isSyncing THEN s
       ELSE IF index \notin 1..s.activeCount THEN s
       ELSE IF parsed.empty
            THEN [s EXCEPT !.isSyncing = TRUE,
                           !.text = [i \in Fields |->
                                        IF i \in others THEN <<>> ELSE s.text[i]]]
       ELSE [s EXCEPT
               !.text = [i \in Fields |->
                   IF i = index
                   THEN IF EndsWith(parsed.cleaned, <<".">>)
                        THEN formatEditableNumberText(parsed.cleaned)
                        ELSE toInputValue(parsed.number)
                   ELSE IF i \in others
                        THEN toInputValue(convertAmount(s, parsed.number, s.code[index],
                                                        s.code[i]))
                        ELSE s.text[i]],
               !.calls = s.calls \cup
                   {CallOf(s, parsed.number, s.code[index], s.code[i]) : i \in others}]

\* updateFrom that propagates to every field, hidden ones included
updateFromAllFields(s, index) ==
    LET parsed == parseEditableNumber(s.text[index])
        others == {i \in Fields : i # index}
    IN IF s.isSyncing THEN s
       ELSE IF index \notin 1..s.activeCount THEN s
       ELSE IF parsed.empty
            THEN [s EXCEPT !.text = [i \in Fields |->
                                        IF i \in others THEN <<>> ELSE s.text[i]]]
       ELSE [s EXCEPT
               !.text = [i \in Fields |->
                   IF i = index
                   THEN IF EndsWith(parsed.cleaned, <<".">>)
                        THEN formatEditableNumberText(parsed.cleaned)
                        ELSE toInputValue(parsed.number)
                   ELSE toInputValue(convertAmount(s, parsed.number, s.code[index],
                                                   s.code[i]))],
               !.calls = s.calls \cup
                   {CallOf(s, parsed.number, s.code[index], s.code[i]) : i \in others}]

updateFrom(s, index) ==
    LET parsed == parseEditableNumber(s.text[index])
        sourceCode == s.code[index]
        sourceAmount == parsed.number
        sourceFormatted == IF EndsWith(parsed.cleaned, <<".">>)
                           THEN formatEditableNumberText(parsed.cleaned)
                           ELSE toInputValue(sourceAmount)
        others == {i \in 1..s.activeCount : i # index}
    IN IF s.isSyncing THEN s
       ELSE IF index \notin 1..s.activeCount THEN s
       ELSE IF parsed.empty
            THEN [s EXCEPT !.text = [i \in Fields |->
                                        IF i \in others THEN <<>> ELSE s.text[i]]]
       ELSE [s EXCEPT
               !.text = [i \in Fields |->
                   IF i = index THEN sourceFormatted
                   ELSE IF i \in others
                        THEN toInputValue(convertAmount(s, sourceAmount, sourceCode, s.code[i]))
                        ELSE s.text[i]],
               !.calls = s.calls \cup
                   {CallOf(s, sourceAmount, sourceCode, s.code[i]) : i \in others}]

\* refreshRows that leaves the add and remove buttons as they are
refreshRowsNoButtons(s) ==
    [s EXCEPT !.hidden = [i \in Fields |-> i > s.activeCount],
              !.countNote = "count"]

refreshRows(s) ==
    [s EXCEPT !.hidden = [i \in Fields |-> i > s.activeCount],
              !.countNote = "count",
              !.addDisabled = s.activeCount >= MAX_FIELDS,
              !.removeDisabled = s.activeCount <= MIN_FIELDS]

applyEnabledState(s) ==
    LET ok == canConvertSelected(s)
    IN [s EXCEPT !.inputDisabled = [i \in Fields |->
                                       IF i <= s.activeCount THEN ~ok ELSE TRUE],
                 !.selectDisabled = [i \in Fields |-> i > s.activeCount],
                 !.countNote = IF ok THEN s.countNote ELSE "insufficient"]

addField(s) ==
    IF s.activeCount >= MAX_FIELDS THEN s
    ELSE updateFrom(refreshRows([s EXCEPT !.activeCount = s.activeCount + 1]), 1)

removeField(s) ==
    IF s.activeCount <= MIN_FIELDS THEN s
    ELSE updateFrom(refreshRows([s EXCEPT !.activeCount = s.activeCount - 1]), 1)

\* the state of the page when the script starts: the rendered markup
RenderedPage(rates) ==
    [ratesByType |-> rates, rateType |-> "sale", activeCount |-> InitialActiveCount,
     isSyncing |-> FALSE, lastEditedIndex |-> 1,
     code |-> [i \in Fields |-> default_codes[i]],
     text |-> [i \in Fields |-> <<"0", ".", "0", "0">>],
     prevCode |-> [i \in Fields |-> ""],
     hidden |-> [i \in Fields |-> FALSE],
     inputDisabled |-> [i \in Fields |-> FALSE],
     selectDisabled |-> [i \in Fields |-> FALSE],
     addDisabled |-> FALSE, removeDisabled |-> FALSE, countNote |-> "", calls |-> {}]

\* the statements at the end of the script
pageInit(s) ==
    updateFrom(applyEnabledState(refreshRows(
        [s EXCEPT !.prevCode = [i \in Fields |-> s.code[i]]])), 1)

\* getPrevCode(index)
getPrevCode(s, index) == IF s.prevCode[index] # "" THEN s.prevCode[index] ELSE s.code[index]

onFocus(s, index) == [s EXCEPT !.lastEditedIndex = index]

onClick(s, index) == [s EXCEPT !.lastEditedIndex = index]

onInput(s, index) == updateFrom([s EXCEPT !.lastEditedIndex = index], index)

\* onBlur that leaves an empty field empty
onBlurKeepEmpty(s, index) ==
    LET parsed == parseEditableNumber(s.text[index])
        s1 == [s EXCEPT !.lastEditedIndex = index]
    IN IF parsed.empty THEN updateFrom(s1, index)
       ELSE updateFrom([s1 EXCEPT !.text[index] = toInputValue(parsed.number)], index)

onBlur(s, index) ==
    LET parsed == parseEditableNumber(s.text[index])
        s1 == [s EXCEPT !.lastEditedIndex = index]
    IN IF parsed.empty
       THEN updateFrom([s1 EXCEPT !.text[index] = <<"0", ".", "0", "0">>], index)
       ELSE updateFrom([s1 EXCEPT !.text[index] = toInputValue(parsed.number)], index)

\* the change handler of a currency selector; s.code[index] is the new value
onSelectChange(s, index) ==
    LET oldCode == getPrevCode(s, index)
        newCode == s.code[index]
        s1 == applyEnabledState(s)
        r == currentRates(s1)
        amountOld == parseEditableNumber(s1.text[index]).number
        krwValue == NumMul(amountOld, RateOf(r, oldCode))
        amountNew == NumDiv(krwValue, RateOf(r, newCode))
    IN IF index = s1.lastEditedIndex
       THEN updateFrom([s1 EXCEPT !.text[index] = toInputValue(amountNew),
                                  !.prevCode[index] = newCode], index)
       ELSE updateFrom([s1 EXCEPT !.prevCode[index] = newCode],
                       Min(s1.lastEditedIndex, s1.activeCount))

\* the change handler of the rate-type selector; s.rateType is the new value
onRateTypeChange(s) ==
    LET s1 == applyEnabledState(s)
    IN updateFrom(s1, Min(s1.lastEditedIndex, s1.activeCount))

onAddClick(s) ==
    LET s1 == applyEnabledState(addField(s))
    IN updateFrom(s1, Min(s1.lastEditedIndex, s1.activeCount))

onRemoveClick(s) ==
    LET s1 == applyEnabledState(removeField(s))
    IN updateFrom(s1, Min(s1.lastEditedIndex, s1.activeCount))

(***************************************************************************)
(* State                                                                   *)
(***************************************************************************)
VARIABLES
    response,        \* what the upstream request of the running fetch returned
    fetched,         \* what the fetch of the running request or job produced
    served,          \* the template arguments of the page index() returned
    rates_json,      \* docs/data/rates.json as written by the static job
    job,             \* the static job: "idle", "done" or "raised"
    loaded,          \* the page's script has run
    pageError,       \* the page shows the error message
    ratesByType, rateType, activeCount, isSyncing, lastEditedIndex,
    code,            \* fields[i].select.value
    text,            \* fields[i].input.value
    prevCode,        \* fields[i].row.dataset.prevCode
    hidden, inputDisabled, selectDisabled, addDisabled, removeDisabled, countNote,
    focus,           \* the amount input that has the focus, 0 for none
    calls,           \* the calls of convertAmount made by the last handler
    steps            \* user events so far

server == <<response, fetched, served, rates_json, job>>

client == <<loaded, pageError, ratesByType, rateType, activeCount, isSyncing,
            lastEditedIndex, code, text, prevCode, hidden, inputDisabled,
            selectDisabled, addDisabled, removeDisabled, countNote, focus, calls, steps>>

vars == <<response, fetched, served, rates_json, job, loaded, pageError, ratesByType,
          rateType, activeCount, isSyncing, lastEditedIndex, code, text, prevCode,
          hidden, inputDisabled, selectDisabled, addDisabled, removeDisabled,
          countNote, focus, calls, steps>>

\* user events explored after a page load
MaxSteps == 4

NoResponse == [ok |-> FALSE, html |-> <<"-">>]

NoFetch == Failure("NoFetch", "None")

NoPage == [rates_by_type |-> NoRates, error |-> "None", rate_time_text |-> "NoPage"]

NoFile == [rates_by_type |-> NoRates, currencies |-> <<>>]

\* what the user can leave in an amount input: "", ".", "100", "1.234", "7."
InputTexts ==
    {<<>>, <<".">>, <<"1", "0", "0">>, <<"1", ".", "2", "3", "4">>, <<"7", ".">>}

\* the page's state as one record
UI ==
    [ratesByType |-> ratesByType, rateType |-> rateType, activeCount |-> activeCount,
     isSyncing |-> isSyncing, lastEditedIndex |-> lastEditedIndex, code |-> code,
     text |-> text, prevCode |-> prevCode, hidden |-> hidden,
     inputDisabled |-> inputDisabled, selectDisabled |-> selectDisabled,
     addDisabled |-> addDisabled, removeDisabled |-> removeDisabled,
     countNote |-> countNote, calls |-> {}]

\* the page's next state is the record s
SetUI(s) ==
    /\ ratesByType' = s.ratesByType
    /\ rateType' = s.rateType
    /\ activeCount' = s.activeCount
    /\ isSyncing' = s.isSyncing
    /\ lastEditedIndex' = s.lastEditedIndex
    /\ code' = s.code
    /\ text' = s.text
    /\ prevCode' = s.prevCode
    /\ hidden' = s.hidden
    /\ inputDisabled' = s.inputDisabled
    /\ selectDisabled' = s.selectDisabled
    /\ addDisabled' = s.addDisabled
    /\ removeDisabled' = s.removeDisabled
    /\ countNote' = s.countNote
    /\ calls' = s.calls

Init ==
    /\ response = NoResponse
    /\ fetched = NoFetch
    /\ served = NoPage
    /\ rates_json = NoFile
    /\ job = "idle"
    /\ loaded = FALSE
    /\ pageError = FALSE
    /\ ratesByType = NoRates
    /\ rateType = "sale"
    /\ activeCount = InitialActiveCount
    /\ isSyncing = FALSE
    /\ lastEditedIndex = 1
    /\ code = [i \in Fields |-> default_codes[i]]
    /\ text = [i \in Fields |-> <<"0", ".", "0", "0">>]
    /\ prevCode = [i \in Fields |-> ""]
    /\ hidden = [i \in Fields |-> FALSE]
    /\ inputDisabled = [i \in Fields |-> FALSE]
    /\ selectDisabled = [i \in Fields |-> FALSE]
    /\ addDisabled = FALSE
    /\ removeDisabled = FALSE
    /\ countNote = ""
    /\ focus = 0
    /\ calls = {}
    /\ steps = 0

(***************************************************************************)
(* Server and job                                                          *)
(***************************************************************************)
\* GET /: index() fetches and renders
Index(resp) ==
    /\ ~loaded /\ served = NoPage /\ job = "idle"
    /\ response' = resp
    /\ fetched' = fetch_naver_rates(resp)
    /\ served' = RenderIndex(resp)
    /\ UNCHANGED <<rates_json, job>>
    /\ UNCHANGED client

\* scripts/update_rates.py: main() fetches and writes the snapshot file, or raises
Main(resp) ==
    /\ ~loaded /\ served = NoPage /\ job = "idle"
    /\ response' = resp
    /\ fetched' = fetch_snapshot(resp)
    /\ IF fetch_snapshot(resp).ok
       THEN /\ rates_json' = [rates_by_type |-> fetch_snapshot(resp).rates_by_type,
                              currencies |-> Codes]
            /\ job' = "done"
       ELSE /\ rates_json' = rates_json
            /\ job' = "raised"
    /\ UNCHANGED served
    /\ UNCHANGED client

\* the browser runs the script of the served page; the request is over
PageLoad ==
    /\ ~loaded /\ served # NoPage
    /\ loaded' = TRUE
    /\ pageError' = (served.error # "None")
    /\ SetUI(pageInit(RenderedPage(served.rates_by_type)))
    /\ response' = NoResponse
    /\ fetched' = NoFetch
    /\ served' = NoPage
    /\ UNCHANGED <<rates_json, job, focus, steps>>

(***************************************************************************)
(* User events                                                             *)
(***************************************************************************)
Event ==
    /\ loaded /\ steps < MaxSteps
    /\ steps' = steps + 1
    /\ UNCHANGED <<server, loaded, pageError>>

Focus(i) ==
    /\ Event
    /\ i <= activeCount /\ ~inputDisabled[i] /\ focus = 0
    /\ focus' = i
    /\ SetUI(onFocus(UI, i))

Click(i) ==
    /\ Event
    /\ focus = i /\ ~inputDisabled[i]
    /\ focus' = i
    /\ SetUI(onClick(UI, i))

\* the user changes the text of the focused input to txt
Input(i, txt) ==
    /\ Event
    /\ focus = i /\ ~inputDisabled[i]
    /\ focus' = i
    /\ SetUI(onInput([UI EXCEPT !.text[i] = txt], i))

\* the focused input loses the focus; a disabled input gets no blur event
Blur(i) ==
    /\ Event
    /\ focus = i
    /\ focus' = 0
    /\ SetUI(IF inputDisabled[i] THEN [UI EXCEPT !.calls = calls] ELSE onBlur(UI, i))

SelectChange(i, c) ==
    /\ Event
    /\ ~selectDisabled[i] /\ c # code[i]
    /\ SetUI(onSelectChange([UI EXCEPT !.code[i] = c], i))
    /\ UNCHANGED focus

RateTypeChange(t) ==
    /\ Event
    /\ t # rateType
    /\ SetUI(onRateTypeChange([UI EXCEPT !.rateType = t]))
    /\ UNCHANGED focus

AddClick ==
    /\ Event
    /\ ~addDisabled
    /\ SetUI(onAddClick(UI))
    /\ UNCHANGED focus

RemoveClick ==
    /\ Event
    /\ ~removeDisabled
    /\ SetUI(onRemoveClick(UI))
    /\ UNCHANGED focus

Next ==
    \/ \E resp \in Responses : Index(resp)
    \/ \E resp \in Responses : Main(resp)
    \/ PageLoad
    \/ \E i \in Fields : Focus(i)
    \/ \E i \in Fields : Click(i)
    \/ \E i \in Fields, txt \in InputTexts : Input(i, txt)
    \/ \E i \in Fields : Blur(i)
    \/ \E i \in Fields, c \in CodeSet : SelectChange(i, c)
    \/ \E t \in RateTypeSet : RateTypeChange(t)
    \/ AddClick
    \/ RemoveClick

Spec == Init /\ [][Next]_vars

(***************************************************************************)
(* Properties                                                              *)
(***************************************************************************)
ForeignCodes == {c \in CodeSet : market_code(c) # NoMarket}

\* the identifier a row's link carries: the tokens between "marketindexCd=" and
\* the closing quote
RowId(row) ==
    LET a == FirstFrom(row, {CdParam}, 1)
        b == IF a = 0 THEN 0 ELSE FirstFrom(row, {AEnd}, a + 1)
    IN IF a = 0 \/ b = 0 THEN <<>> ELSE SubSeq(row, a + 1, b - 1)

\* the currencies whose located row yields fewer than five numbers
ShortCodes(html) ==
    {c \in ForeignCodes :
        /\ parse_market_row(html, market_code(c)).found
        /\ Len(parse_row_numbers(parse_market_row(html, market_code(c)).row)) < MinCols}

\* the currencies whose row cannot be located or parsed
FailingCodes(html) ==
    {c \in ForeignCodes : ~parse_market_row(html, market_code(c)).found} \cup ShortCodes(html)

\* the first of them in the order of CURRENCY_META
FirstFailing(html) ==
    Codes[CHOOSE i \in 1..Len(Codes) :
             /\ Codes[i] \in FailingCodes(html)
             /\ \A k \in 1..(i - 1) : Codes[k] \notin FailingCodes(html)]

\* a table with a rate for every supported currency in each of the five buckets
Complete(table) ==
    /\ DOMAIN table = RateTypeSet
    /\ \A t \in RateTypeSet : DOMAIN table[t] = CodeSet

AllGoodDoc == DocFrom(1, "USD", "good")

\* the selected bucket's rate of a currency is a positive finite number
PositiveRate(c) ==
    /\ IsFinite(RateOf(ratesByType[rateType], c))
    /\ IsPositive(RateOf(ratesByType[rateType], c))

\* C1: for every document and every requested identifier X, the row the locator
\* returns (in the page's fetch and in the job's fetch) is a row whose own
\* identifier is exactly X.
C1_LocatedRowIsOwnRow ==
    response.ok =>
        \A c \in ForeignCodes :
            LET a == parse_market_row(response.html, market_code(c))
                b == find_row(iter_rows(response.html), market_code(c))
            IN /\ a.found => RowId(a.row) = <<market_code(c)>>
               /\ b.found => RowId(b.row) = <<market_code(c)>>

\* C2: when the located row of a currency yields fewer than 5 numbers, the fetch
\* fails: it produces no table, no snapshot file is written, the served page
\* reports an error, and when that currency is the first that fails the error is
\* the column-parse error naming it.
C2_ShortRowFailsFetch ==
    (response.ok /\ ShortCodes(response.html) # {}) =>
        /\ ~fetched.ok
        /\ fetched.rates_by_type = NoRates
        /\ rates_json = NoFile
        /\ served # NoPage => served.error # "None"
        /\ FirstFailing(response.html) \in ShortCodes(response.html) =>
              /\ fetched.error = "RuntimeError"
              /\ fetched.code = FirstFailing(response.html)

C2_Witness ==
    /\ response.ok
    /\ ShortCodes(response.html) = {"JPY"}
    /\ ~fetched.ok
    /\ fetched.error = "RuntimeError"
    /\ fetched.code = "JPY"

\* C3: if the row of any supported currency cannot be located or parsed, the
\* fetch produces no table and the job writes no file; every table a fetch
\* returns, and every file written, holds a rate for every supported currency in
\* each of the five buckets.
C3_AllOrNothing ==
    /\ (response.ok /\ FailingCodes(response.html) # {}) =>
          /\ ~fetched.ok
          /\ fetched.rates_by_type = NoRates
          /\ rates_json = NoFile
    /\ fetched.ok => Complete(fetched.rates_by_type)
    /\ rates_json # NoFile => Complete(rates_json.rates_by_type)
    /\ job = "raised" => rates_json = NoFile

C3_Witness ==
    /\ response.ok
    /\ FailingCodes(response.html) = {"EUR"}
    /\ ~fetched.ok
    /\ job = "raised"
    /\ rates_json = NoFile

\* C4: for every conversion the page made between currencies whose selected
\* rates are positive, converting the result back gives the amount again.
C4_RoundTrip ==
    loaded =>
        \A c \in calls :
            (PositiveRate(c.from) /\ PositiveRate(c.to)) =>
                convertAmount(UI, c.result, c.to, c.from) = c.amount

C4_Witness ==
    /\ loaded
    /\ \E c \in calls :
          /\ c.from # c.to
          /\ PositiveRate(c.from) /\ PositiveRate(c.to)
          /\ IsPositive(c.amount)
          /\ c.result # c.amount

\* C5: a conversion from a currency to itself returns exactly the amount,
\* whatever rate the table holds for it.
C5_Identity == \A c \in calls : c.from = c.to => c.result = c.amount

C5_Witness ==
    /\ loaded
    /\ \E c \in calls : c.from = c.to /\ IsPositive(c.amount)

\* C6: an input event that leaves a valid amount a in field i sets every other
\* active field j to the display form of convert(a, currency i, currency j)
\* under the selected rate type; 100 USD at the mid rate 1350 gives 135000 in a
\* KRW field.
C6_Propagation ==
    [][\A i \in Fields, txt \in InputTexts :
          (Input(i, txt) /\ ~parseEditableNumber(txt).empty) =>
              \A j \in 1..activeCount :
                  j # i =>
                      /\ text'[j] = toInputValue(convertAmount(
                             UI, parseEditableNumber(txt).number, code[i], code[j]))
                      /\ ( /\ txt = <<"1", "0", "0">>
                           /\ code[i] = "USD" /\ code[j] = "KRW"
                           /\ RateOf(ratesByType[rateType], "USD") = Int2Num(1350) )
                         => parseEditableNumber(text'[j]).number = Int2Num(135000)
      ]_vars

C6_Witness ==
    /\ loaded /\ focus = 1 /\ lastEditedIndex = 1
    /\ code[1] = "USD" /\ code[2] = "KRW" /\ rateType = "sale"
    /\ ratesByType["sale"]["USD"] = Int2Num(1350)
    /\ text[1] = <<"1", "0", "0", ".", "0", "0">>
    /\ text[2] = <<"1", "3", "5", ",", "0", "0", "0", ".", "0", "0">>

\* C7: an input event that leaves field i empty blanks every other active field.
C7_ClearBlanksOthers ==
    [][\A i \in Fields :
          Input(i, <<>>) => \A j \in 1..activeCount : j # i => text'[j] = <<>>
      ]_vars

C7_Witness ==
    /\ loaded /\ focus # 0 /\ activeCount >= 2
    /\ text[focus] = <<>>
    /\ \A j \in 1..activeCount : text[j] = <<>>

\* C8: every stored rate times the currency's source unit is the value of the
\* located row's column of that rate type; for the document with the quotes
\* USD 1350.00/1360.00/1340.00/1345.00/1355.00 and JPY 900.00/905.00/895.00/
\* 897.00/903.00 the mid rates are USD 1350 and JPY 9.
C8_Normalized ==
    fetched.ok =>
        /\ \A c \in ForeignCodes, t \in RateTypeSet :
              /\ source_unit(c) \in {1, 100}
              /\ NumMul(fetched.rates_by_type[t][c], Int2Num(source_unit(c)))
                   = parse_row_numbers(
                         parse_market_row(response.html, market_code(c)).row)[TypeIndex(t)]
              /\ response.html = AllGoodDoc =>
                    NumMul(fetched.rates_by_type[t][c], Int2Num(source_unit(c)))
                      = Num(Quotes(c)[TypeIndex(t)], 100)
        /\ response.html = AllGoodDoc =>
              /\ fetched.rates_by_type["sale"]["USD"] = Int2Num(1350)
              /\ fetched.rates_by_type["sale"]["JPY"] = Int2Num(9)
        /\ rates_json # NoFile => rates_json.rates_by_type = fetched.rates_by_type

C8_Witness ==
    /\ fetched.ok
    /\ response.html = AllGoodDoc
    /\ fetched.rates_by_type["sale"]["USD"] = Int2Num(1350)
    /\ fetched.rates_by_type["sale"]["JPY"] = Int2Num(9)
    /\ fetched.rates_by_type["receive"]["JPY"] = Num(903, 100)

\* C9: a conversion between two different currencies returns
\* amount * rate[from] / rate[to] with both rates taken from the bucket of the
\* selected rate type.
C9_PivotSameBucket ==
    loaded =>
        \A c \in calls :
            c.from # c.to =>
                c.result = NumDiv(NumMul(c.amount, ratesByType[rateType][c.from]),
                                  ratesByType[rateType][c.to])

C9_Witness ==
    /\ loaded /\ rateType # "sale"
    /\ \E c \in calls :
          /\ c.from # "KRW" /\ c.to # "KRW" /\ c.from # c.to
          /\ IsPositive(c.amount)
          /\ IsFinite(c.result)

\* C10: a conversion of the amount 0 returns 0, for every source currency,
\* target currency and rate type, in every table the page can hold.
C10_ZeroConvertsToZero == \A c \in calls : c.amount = Zero => c.result = Zero

\* the amount the page reads from a field's text
AmountOf(txt) == parseEditableNumber(txt).number

\* the value of a field's amount in KRW under the selected rate type
KrwValue(txt, c) == NumMul(AmountOf(txt), RateOf(ratesByType[rateType], c))

\* C11: an input event that leaves a valid amount in field i leaves the text of
\* field i exactly as the user typed it.
C11_SelfNotRewritten ==
    [][\A i \in Fields, txt \in InputTexts :
          (Input(i, txt) /\ ~parseEditableNumber(txt).empty) => text'[i] = txt
      ]_vars

\* C12: when the currency of the last-edited field changes from A to B and the
\* selected rates of all active currencies are positive, the field's new amount
\* times rate[B] equals its old amount times rate[A], and every other active
\* field keeps its KRW value.
C12_ValuePreserving ==
    [][\A i \in Fields, c \in CodeSet :
          ( /\ SelectChange(i, c)
            /\ i = lastEditedIndex
            /\ PositiveRate(c)
            /\ \A j \in 1..activeCount : PositiveRate(code[j]) ) =>
              /\ KrwValue(text'[i], c) = KrwValue(text[i], code[i])
              /\ \A j \in 1..activeCount :
                    j # i => KrwValue(text'[j], code[j]) = KrwValue(text[j], code[j])
      ]_vars

\* C13: when the currency of a field other than the last-edited one changes to
\* c and the last-edited field holds an amount, the changed field shows the
\* conversion of the last-edited field's amount into c, and the last-edited
\* field keeps its amount and its currency.
C13_SelectionPreserving ==
    [][\A i \in Fields, c \in CodeSet :
          ( /\ SelectChange(i, c)
            /\ i # lastEditedIndex
            /\ ~parseEditableNumber(text[lastEditedIndex]).empty ) =>
              /\ text'[i] = toInputValue(convertAmount(
                     UI, AmountOf(text[lastEditedIndex]), code[lastEditedIndex], c))
              /\ AmountOf(text'[lastEditedIndex]) = AmountOf(text[lastEditedIndex])
              /\ code'[lastEditedIndex] = code[lastEditedIndex]
      ]_vars

\* C14: a change of the rate type to t leaves the amount of the last-edited
\* field unchanged, sets every other active field to the conversion of that
\* amount under t, and changes no field's currency.
C14_RateTypeRepropagates ==
    [][\A t \in RateTypeSet :
          ( /\ RateTypeChange(t)
            /\ ~parseEditableNumber(text[lastEditedIndex]).empty ) =>
              /\ AmountOf(text'[lastEditedIndex]) = AmountOf(text[lastEditedIndex])
              /\ \A j \in 1..activeCount :
                    j # lastEditedIndex =>
                        text'[j] = toInputValue(convertAmount(
                            [UI EXCEPT !.rateType = t], AmountOf(text[lastEditedIndex]),
                            code[lastEditedIndex], code[j]))
              /\ code' = code
      ]_vars

\* C15: after an add or remove click that leaves the last-edited field active
\* and holding an amount, that field keeps its amount and every other active
\* field shows the conversion of it.
C15_CountChangeRepropagates ==
    [][( /\ AddClick \/ RemoveClick
         /\ lastEditedIndex <= activeCount'
         /\ ~parseEditableNumber(text[lastEditedIndex]).empty ) =>
            /\ AmountOf(text'[lastEditedIndex]) = AmountOf(text[lastEditedIndex])
            /\ \A j \in 1..activeCount' :
                  j # lastEditedIndex =>
                      text'[j] = toInputValue(convertAmount(
                          UI, AmountOf(text[lastEditedIndex]),
                          code[lastEditedIndex], code[j]))
      ]_vars

\* the table with KRW 1.0 and every other currency 0.0 in all five buckets
IsFallbackTable(table) ==
    /\ DOMAIN table = RateTypeSet
    /\ \A t \in RateTypeSet :
          /\ DOMAIN table[t] = CodeSet
          /\ \A c \in CodeSet : table[t][c] = IF c = "KRW" THEN One ELSE Zero

\* C16: whenever the fetch of a page request fails, the page is served with an
\* error message and with the table that has KRW 1.0 and every other currency
\* 0.0 in all five buckets; a served table is either that table or the fetched
\* table as a whole, and the loaded page that shows the error holds that table.
C16_FailureServesFallback ==
    /\ (fetched # NoFetch /\ ~fetched.ok /\ job = "idle") =>
          /\ served # NoPage
          /\ served.error = fetched.error
          /\ served.error # "None"
          /\ IsFallbackTable(served.rates_by_type)
    /\ (served # NoPage /\ fetched.ok) =>
          /\ served.error = "None"
          /\ served.rates_by_type = fetched.rates_by_type
    /\ (loaded /\ pageError) => IsFallbackTable(ratesByType)

C16_Witness ==
    /\ response.ok
    /\ ~fetched.ok /\ fetched.error = "ValueError" /\ fetched.code = "EUR"
    /\ served # NoPage
    /\ served.error = "ValueError"
    /\ served.rates_by_type["sale"]["KRW"] = One
    /\ served.rates_by_type["sale"]["USD"] = Zero

\* KRW is 1.0 in each of the five buckets of a table
PivotIsOne(table) ==
    \A t \in RateTypeSet : "KRW" \in DOMAIN table[t] /\ table[t]["KRW"] = One

\* C17: KRW is exactly 1.0 in every bucket of every table produced: the table a
\* fetch returns, the snapshot file, the served table (fetched or fallback) and
\* the table the page holds.
C17_PivotIsOne ==
    /\ fetched.ok => PivotIsOne(fetched.rates_by_type)
    /\ rates_json # NoFile => PivotIsOne(rates_json.rates_by_type)
    /\ served # NoPage => PivotIsOne(served.rates_by_type)
    /\ loaded => PivotIsOne(ratesByType)

C17_Witness ==
    /\ response.ok /\ response.html = DocFrom(1, "USD", "shadow")
    /\ fetched.ok
    /\ job = "done"
    /\ PivotIsOne(rates_json.rates_by_type)
    /\ rates_json.rates_by_type["sale"]["USD"] = Int2Num(7)

\* C18: every rate of a table a fetch returns, and of a written snapshot file,
\* is a positive finite number.
C18_RatesPositiveFinite ==
    /\ fetched.ok =>
          \A t \in RateTypeSet, c \in CodeSet :
              IsFinite(fetched.rates_by_type[t][c]) /\ IsPositive(fetched.rates_by_type[t][c])
    /\ rates_json # NoFile =>
          \A t \in RateTypeSet, c \in CodeSet :
              /\ IsFinite(rates_json.rates_by_type[t][c])
              /\ IsPositive(rates_json.rates_by_type[t][c])

\* C19: on a page rendered from the fallback table after a failed fetch, every
\* active amount input and currency selector and the add and remove buttons are
\* disabled, and no handler computes a conversion.
C19_NoRatesDisablesAll ==
    (loaded /\ pageError) =>
        /\ \A i \in 1..activeCount : inputDisabled[i] /\ selectDisabled[i]
        /\ addDisabled /\ removeDisabled
        /\ calls = {}

\* C20: an input event that leaves a lone "." in field i blanks every other
\* active field.
C20_LoneDotIsNoValue ==
    [][\A i \in Fields :
          Input(i, <<".">>) => \A j \in 1..activeCount : j # i => text'[j] = <<>>
      ]_vars

\* C21: in every table a fetch returns, the rate stored for a currency in the
\* k-th bucket (sale, buy, sell, send, receive), times the source unit, is the
\* number printed in the k-th rate cell of the currency's located row.
C21_ColumnsAligned ==
    fetched.ok =>
        \A c \in ForeignCodes, t \in RateTypeSet :
            LET row == parse_market_row(response.html, market_code(c)).row
                cell == RemoveCommas(Strip(TdTextsFrom(row, 1)[TypeIndex(t)]))
            IN /\ PyFloat(cell).ok
               /\ NumMul(fetched.rates_by_type[t][c], Int2Num(source_unit(c)))
                    = PyFloat(cell).v

RowPos(html, row) ==
    CHOOSE i \in 1..Len(html) :
        MatchAt(html, row, i) /\ \A k \in 1..(i - 1) : ~MatchAt(html, row, k)

\* C23: every fragment of the row extraction starts with a row-start marker,
\* ends with a row-end marker and holds no other row-end marker; the fragments
\* lie in the document one after the other in the order they are yielded, one
\* for every row end of the document; a document without rows yields the empty
\* sequence, and the lookup then reports the first requested row as not found.
C23_RowsAreSingle ==
    response.ok =>
        LET html == response.html
            rows == iter_rows(html)
        IN /\ \A k \in 1..Len(rows) :
                 /\ Head(rows[k]) = TrOpen
                 /\ rows[k][Len(rows[k])] = TrClose
                 /\ \A j \in 1..(Len(rows[k]) - 1) : rows[k][j] # TrClose
                 /\ Contains(html, rows[k])
           /\ \A k \in 1..(Len(rows) - 1) :
                 RowPos(html, rows[k]) + Len(rows[k]) <= RowPos(html, rows[k + 1])
           /\ Len(rows) = Cardinality({i \in 1..Len(html) : html[i] = TrClose})
           /\ html = NoRowsDoc =>
                 /\ rows = <<>>
                 /\ fetched.error = "ValueError" /\ fetched.code = "USD"

C23_Witness ==
    /\ response.ok /\ response.html = DocFrom(1, "USD", "shadow")
    /\ Len(iter_rows(response.html)) = 5
    /\ RowId(iter_rows(response.html)[1]) = <<"FX_USDKRW", "_", "X">>
    /\ RowId(iter_rows(response.html)[2]) = <<"FX_USDKRW">>

\* a row holds the identifier token of a market and the title-row marker
IsTitleRowOf(row, mc) == Contains(row, <<CdParam, mc>>) /\ Contains(row, <<ClassTit>>)

\* C24: row location finds a row exactly when some fragment holds both the
\* requested identifier token and the title-row marker, and the row it returns
\* holds both; when the first currency that fails has no such row, the fetch
\* fails with the not-found error that names it.
C24_NotFound ==
    response.ok =>
        LET html == response.html
            rows == iter_rows(html)
        IN /\ \A c \in ForeignCodes :
                 LET a == parse_market_row(html, market_code(c))
                     b == find_row(rows, market_code(c))
                     some == \E k \in 1..Len(rows) : IsTitleRowOf(rows[k], market_code(c))
                 IN /\ a.found <=> some
                    /\ b.found <=> some
                    /\ a.found => IsTitleRowOf(a.row, market_code(c))
                    /\ b.found => IsTitleRowOf(b.row, market_code(c))
           /\ ( /\ FailingCodes(html) # {}
                /\ ~parse_market_row(html, market_code(FirstFailing(html))).found ) =>
                 /\ ~fetched.ok
                 /\ fetched.error = "ValueError"
                 /\ fetched.code = FirstFailing(html)

C24_Witness ==
    /\ response.ok /\ response.html = DocFrom(1, "USD", "untitled")
    /\ Contains(response.html, <<CdParam, "FX_USDKRW">>)
    /\ ~fetched.ok /\ fetched.error = "ValueError" /\ fetched.code = "USD"
    /\ job = "raised"

C26_HiddenFieldKept ==
    [][ /\ loaded' =>
              \A i \in Fields : hidden'[i] => (inputDisabled'[i] /\ selectDisabled'[i])
        /\ loaded =>
              \A i \in Fields : hidden'[i] => (text'[i] = text[i] /\ code'[i] = code[i])
      ]_vars

C26_Witness ==
    /\ loaded /\ ~pageError /\ steps = 4
    /\ activeCount = 2 /\ hidden[3] /\ inputDisabled[3] /\ selectDisabled[3]
    /\ text[3] = <<"1", "0", "0", ".", "0", "0">> /\ code[3] = "PHP"
    /\ code[2] = "JPY"

\* raw editable texts beyond those typed in the runs: "1234567", "0012.50",
\* ".5", "1000."
RawSamples ==
    {<<"1", "2", "3", "4", "5", "6", "7">>, <<"0", "0", "1", "2", ".", "5", "0">>,
     <<".", "5">>, <<"1", "0", "0", "0", ".">>}

C29_Idempotent ==
    [][\A i \in Fields, txt \in InputTexts :
          Input(i, txt) =>
              \A j \in 1..activeCount :
                  AmountOf(updateFrom(UI', i).text[j]) = AmountOf(text'[j])
      ]_vars

=============================================================================
